---- MODULE Spec2Model ----
(***************************************************************************)
(* Model of awx/main/management/commands/cleanup_jobs.py: the management   *)
(* command that removes old jobs, ad hoc commands, project and inventory   *)
(* updates, management jobs, workflow jobs and notifications.              *)
(*                                                                         *)
(* Time is counted in whole days from datetime.min (MinTime).  The         *)
(* database is a set of unified-job / notification rows plus the table of  *)
(* parent rows (Project / InventorySource) the update rows point to.  The  *)
(* command is invoked again and again with the same --days and selection  *)
(* options; --dry-run is chosen at every invocation.  A step of the model  *)
(* is the start of handle_noargs, one cleanup_<m> with its summary line,   *)
(* or a database error that ends the run.                                  *)
(***************************************************************************)
EXTENDS Integers, Sequences, FiniteSets, TLC

\* ------------------------------------------------------------------ bounds
\* Largest number of rows in the database before the first invocation.
MaxRecords == 2

\* ------------------------------------------------------- program constants
\* datetime.min, the smallest representable time (day 0 of the model).
MinTime == 0
\* The value of now() at every invocation (the runs follow one another
\* immediately).
Now == 3

\* model_names of handle_noargs, in its order.
model_names ==
    << "jobs", "ad_hoc_commands", "project_updates", "inventory_updates",
       "management_jobs", "workflow_jobs", "notifications" >>

Categories == { model_names[i] : i \in 1..Len(model_names) }

\* The categories whose rows carry a parent with current/last pointers.
UpdateCategories == { "project_updates", "inventory_updates" }

\* The command lines the command is invoked with: no --<m> flag (only = {})
\* or one of two complementary selections, with a horizon of one or two days,
\* and one with a horizon for which now() - timedelta(days) falls below
\* datetime.min.
Invocations ==
    { [ days |-> 1, only |-> {} ],
      [ days |-> 2,
        only |-> { "jobs", "project_updates", "management_jobs", "notifications" } ],
      [ days |-> 1,
        only |-> { "ad_hoc_commands", "inventory_updates", "workflow_jobs" } ],
      [ days |-> Now + 1, only |-> {} ] }

\* The statuses of a row that is not finished; "successful" stands for
\* the terminal ones.
NonTerminal == { "pending", "waiting", "running" }
\* created of the terminal rows: two days and one day before now().
CreatedTimes == (Now - 2)..(Now - 1)

\* A null foreign key.
None == 0
\* self.cutoff before handle_noargs assigned it.
Unset == MinTime - 1

VARIABLES
    db,                 \* rows of the seven models: [id, cat, status, created, parent]
    parents,            \* parent id -> [current_update, last_update, source]
    snapDb,             \* rows at the start of the open / last transaction
    snapParents,        \* parent table at the start of the open / last transaction
    options,            \* [days, only]: the command line
    pc,                 \* "idle", or "cleanup" inside the with block
    dry_run,            \* self.dry_run
    cutoff,             \* self.cutoff
    models_to_cleanup,  \* the resolved selection
    idx,                \* position in model_names of the category in hand
    reports,            \* summary lines of this run: <<[m, deleted, skipped]>>, each
                        \* with the number of rows its query returned (total)
    skipSet,            \* rows this run counted as skipped
    delSet,             \* rows this run counted as deleted
    undone,             \* rows whose deletion the last rollback took back
    activity_stream_enabled,   \* audit-trail listener
    computed_fields_enabled,   \* derived-field listener
    activityEntries,    \* audit-trail entries written for deletions
    computedUpdates,    \* derived-field recomputations triggered by deletions
    outcome,            \* how the last invocation ended
    last                \* what the invocation before this one reported

vars ==
    << db, parents, snapDb, snapParents, options, pc, dry_run, cutoff,
       models_to_cleanup, idx, reports, skipSet, delSet, undone,
       activity_stream_enabled, computed_fields_enabled,
       activityEntries, computedUpdates, outcome, last >>

\* ------------------------------------------------------------ pure helpers
CatIdx(m) == CHOOSE i \in 1..Len(model_names) : model_names[i] = m

\* (variant: 'waiting' left out of the tuple)
SkipStatusesNoWaiting(m) ==
    IF m = "notifications" THEN { "pending" } ELSE { "pending", "running" }

\* The statuses each cleanup_<m> skips first: ('pending', 'waiting',
\* 'running') everywhere but cleanup_notifications, which tests ('pending',).
SkipStatuses(m) ==
    IF m = "notifications" THEN { "pending" } ELSE { "pending", "waiting", "running" }

\* (variant: only current_update is compared)
IsProtectedCurrentOnly(m, r, par) ==
    /\ m \in UpdateCategories
    /\ r.id = par[r.parent].current_update
    /\ par[r.parent].source # ""

\* pu in (pu.project.current_update, pu.project.last_update) and
\* pu.project.scm_type (resp. iu.inventory_source ... .source); the other
\* cleanup_<m> have no such branch.
IsProtected(m, r, par) ==
    /\ m \in UpdateCategories
    /\ r.id \in { par[r.parent].current_update, par[r.parent].last_update }
    /\ par[r.parent].source # ""

\* (variant: > in place of >=)
IsRecentStrict(r, c) == r.created > c

\* <row>.created >= self.cutoff
IsRecent(r, c) == r.created >= c

\* The if / elif / elif / else chain of every cleanup_<m>.
Classify(m, r, par, c) ==
    IF r.status \in SkipStatuses(m) THEN "SkipActive"
    ELSE IF IsProtected(m, r, par) THEN "SkipProtected"
    ELSE IF IsRecent(r, c) THEN "SkipRecent"
    ELSE "Eligible"

\* (variant: the overflow goes unnoticed)
CutoffNeverOverflows(days) == FALSE

\* now() - datetime.timedelta(days=self.days) raises OverflowError when the
\* result is not representable.
CutoffOverflows(days) == Now - days < MinTime

ComputeCutoff(days) == Now - days

\* (variant: the only_<m> options are ignored)
ResolveModelsAll(only) == Categories

\* models_to_cleanup: the only_<m> options that are set, or every model
\* when none is.
ResolveModels(only) == IF only = {} THEN Categories ELSE only

\* for m in model_names: if m in models_to_cleanup: the position of the
\* next selected model at or after i (Len(model_names) + 1 when none is left).
NextSelected(i, sel) ==
    LET rest == { j \in i..Len(model_names) : model_names[j] \in sel }
    IN  IF rest = {} THEN Len(model_names) + 1
        ELSE CHOOSE j \in rest : \A k \in rest : j <= k

\* <Model>.objects.all(): every row of the model, in primary-key order.
RECURSIVE InIdOrder(_)
InIdOrder(S) ==
    IF S = {} THEN << >>
    ELSE LET r == CHOOSE x \in S : \A y \in S : x.id <= y.id
         IN  << r >> \o InIdOrder(S \ { r })

AllRows(m, d) == InIdOrder({ r \in d : r.cat = m })

\* (variant: delete() leaves the row in place)
DeleteRowKeeps(d, r) == d

\* <row>.delete(): the row goes, and every parent pointer to it is nulled.
DeleteRow(d, r) == d \ { r }

NullPointers(par, id) ==
    [ p \in DOMAIN par |->
        [ current_update |-> IF par[p].current_update = id THEN None
                             ELSE par[p].current_update,
          last_update    |-> IF par[p].last_update = id THEN None
                             ELSE par[p].last_update,
          source         |-> par[p].source ] ]

\* (variant: disable_computed_fields() left out of the with statement)
SuppressorsActivityOnly == { "activity_stream" }

\* with disable_activity_stream(), disable_computed_fields(): the context
\* managers the with statement of handle_noargs enters around the cleanup loop.
Suppressors == { "activity_stream", "computed_fields" }

\* A suppressor switches its listener off on entry ...
OnEnter(name, enabled) == IF name \in Suppressors THEN FALSE ELSE enabled

\* ... and on again on exit, normal or exceptional.
OnExit(name, enabled) == IF name \in Suppressors THEN TRUE ELSE enabled

\* (variant: no transaction, every statement is committed as it runs)
RollbackAutocommit(d, snap) == d

\* @transaction.atomic on an exception: the database is what it was when
\* the transaction began.
Rollback(d, snap) == snap

\* ------------------------------------------------------------------ inputs
NoParent == [ current_update |-> None, last_update |-> None, source |-> "" ]

\* The rows a model the invocation cleans may hold at the start.
\* Non-terminal rows are drawn old, and rows their parent points to are drawn
\* terminal and old: the cases in which nothing but the status (resp. the
\* pointer) check keeps them.
RowInputs(m) ==
    { [ status |-> s, created |-> MinTime, ptr |-> "none", source |-> "git" ] :
        s \in NonTerminal }
    \cup
    { [ status |-> "successful", created |-> t, ptr |-> "none", source |-> "git" ] :
        t \in CreatedTimes }
    \cup
    ( IF m \in UpdateCategories
      THEN { [ status |-> "successful", created |-> MinTime, ptr |-> p, source |-> s ] :
               p \in { "current", "last" }, s \in { "", "git" } }
      ELSE {} )

\* A row of a model the invocation never reads (the model is not selected,
\* or the invocation fails before its first query) is drawn the way a
\* cleanup would delete it: terminal, old, not pointed to.
UnreadInput ==
    [ status |-> "successful", created |-> MinTime, ptr |-> "none", source |-> "git" ]

Reads(o, m) ==
    /\ Now - o.days >= MinTime
    /\ o.only = {} \/ m \in o.only

Inputs(o) ==
    UNION { { [ cat |-> m, in |-> x ] :
                x \in IF Reads(o, m) THEN RowInputs(m) ELSE { UnreadInput } } :
            m \in Categories }

\* Row i of a database built from the inputs f[1..n]; an update row gets a
\* parent of its own.
MakeRow(i, x) ==
    [ id |-> i, cat |-> x.cat, status |-> x.in.status, created |-> x.in.created,
      parent |-> IF x.cat \in UpdateCategories THEN i ELSE None ]

MakeParent(i, x) ==
    IF x.cat \in UpdateCategories
    THEN [ current_update |-> IF x.in.ptr = "current" THEN i ELSE None,
           last_update    |-> IF x.in.ptr = "last" THEN i ELSE None,
           source         |-> x.in.source ]
    ELSE NoParent

NoRun == [ dry |-> FALSE, reports |-> << >>, skipSet |-> {}, ok |-> FALSE ]

Init ==
    /\ options \in Invocations
    /\ \E n \in 0..MaxRecords :
         \E f \in [ 1..n -> Inputs(options) ] :
            \* ids are handed out model by model: the order of ids across
            \* models is immaterial to the command
            /\ \A i \in 1..n : \A j \in 1..n :
                 i < j => CatIdx(f[i].cat) <= CatIdx(f[j].cat)
            /\ db = { MakeRow(i, f[i]) : i \in 1..n }
            /\ parents = [ i \in 1..MaxRecords |->
                             IF i <= n THEN MakeParent(i, f[i]) ELSE NoParent ]
    /\ snapDb = db
    /\ snapParents = parents
    /\ pc = "idle"
    /\ dry_run = FALSE
    /\ cutoff = Unset
    /\ models_to_cleanup = {}
    /\ idx = 1
    /\ reports = << >>
    /\ skipSet = {}
    /\ delSet = {}
    /\ undone = {}
    /\ activity_stream_enabled = TRUE
    /\ computed_fields_enabled = TRUE
    /\ activityEntries = 0
    /\ computedUpdates = 0
    /\ outcome = "none"
    /\ last = NoRun

\* ------------------------------------------------- the cleanup_<m> methods
\* (variant: the dry-run test is missing)
ShouldDeleteAlways(dry) == TRUE

\* if not self.dry_run: <row>.delete()
ShouldDelete(dry) == ~dry

\* What a cleanup_<m> has in hand before its loop: skipped, deleted = 0, 0.
LoopStart ==
    [ db |-> db, parents |-> parents, skipped |-> 0, deleted |-> 0,
      skipSet |-> skipSet, delSet |-> delSet,
      activityEntries |-> activityEntries, computedUpdates |-> computedUpdates ]

\* (variant: deleted += 1 sits inside "if not self.dry_run")
ProcessRecordCountsRealOnly(m, r, st) ==
    IF Classify(m, r, st.parents, cutoff) = "Eligible"
    THEN IF ShouldDelete(dry_run)
         THEN [ st EXCEPT
                  !.deleted = @ + 1,
                  !.delSet = @ \cup { r },
                  !.db = DeleteRow(@, r),
                  !.parents = NullPointers(@, r.id),
                  !.activityEntries = IF activity_stream_enabled THEN @ + 1 ELSE @,
                  !.computedUpdates = IF computed_fields_enabled THEN @ + 1 ELSE @ ]
         ELSE st
    ELSE [ st EXCEPT !.skipped = @ + 1, !.skipSet = @ \cup { r } ]

\* One iteration of the for loop of cleanup_<m> on row r.  A deletion fires
\* the post_delete listeners that are connected at that moment.
ProcessRecord(m, r, st) ==
    IF Classify(m, r, st.parents, cutoff) = "Eligible"
    THEN IF ShouldDelete(dry_run)
         THEN [ st EXCEPT
                  !.deleted = @ + 1,
                  !.delSet = @ \cup { r },
                  !.db = DeleteRow(@, r),
                  !.parents = NullPointers(@, r.id),
                  !.activityEntries = IF activity_stream_enabled THEN @ + 1 ELSE @,
                  !.computedUpdates = IF computed_fields_enabled THEN @ + 1 ELSE @ ]
         ELSE [ st EXCEPT !.deleted = @ + 1, !.delSet = @ \cup { r } ]
    ELSE [ st EXCEPT !.skipped = @ + 1, !.skipSet = @ \cup { r } ]

\* for <row> in <Model>.objects.all(): ...
RECURSIVE ForEach(_, _, _)
ForEach(m, rows, st) ==
    IF rows = << >> THEN st
    ELSE ForEach(m, Tail(rows), ProcessRecord(m, Head(rows), st))

\* ----------------------------------------------------------------- actions
\* handle_noargs up to the first cleanup_<m>: the options are read, the
\* transaction opened by @transaction.atomic, the cutoff computed, the
\* selection resolved and the two suppressors entered.
StartRun(dry) ==
    /\ pc = "idle"
    /\ ~CutoffOverflows(options.days)
    /\ last' = IF outcome = "ok"
               THEN [ dry |-> dry_run, reports |-> reports, skipSet |-> skipSet,
                      ok |-> TRUE ]
               ELSE NoRun
    /\ snapDb' = db
    /\ snapParents' = parents
    /\ dry_run' = dry
    /\ cutoff' = ComputeCutoff(options.days)
    /\ models_to_cleanup' = ResolveModels(options.only)
    /\ activity_stream_enabled' = OnEnter("activity_stream", activity_stream_enabled)
    /\ computed_fields_enabled' = OnEnter("computed_fields", computed_fields_enabled)
    /\ idx' = NextSelected(1, models_to_cleanup')
    /\ pc' = "cleanup"
    /\ reports' = << >>
    /\ skipSet' = {}
    /\ delSet' = {}
    /\ undone' = {}
    /\ outcome' = "running"
    /\ UNCHANGED << db, parents, options, activityEntries, computedUpdates >>

\* handle_noargs when the cutoff is not representable: OverflowError is
\* caught and CommandError raised, before models_to_cleanup is built and
\* before the suppressors are entered; the transaction is rolled back.
FailConfig(dry) ==
    /\ pc = "idle"
    /\ CutoffOverflows(options.days)
    /\ last' = NoRun
    /\ snapDb' = db
    /\ snapParents' = parents
    /\ db' = Rollback(db, db)
    /\ parents' = Rollback(parents, parents)
    /\ dry_run' = dry
    /\ reports' = << >>
    /\ skipSet' = {}
    /\ delSet' = {}
    /\ undone' = {}
    /\ outcome' = "CommandError"
    /\ UNCHANGED << options, pc, cutoff, models_to_cleanup, idx,
                    activity_stream_enabled, computed_fields_enabled,
                    activityEntries, computedUpdates >>

\* skipped, deleted = getattr(self, 'cleanup_%s' % m)() followed by the
\* summary line, for the selected model in hand; then on to the next
\* selected model.  After the last one the with block is left, handle_noargs
\* returns and the transaction commits.
Cleanup ==
    /\ pc = "cleanup"
    /\ \E rows \in { AllRows(model_names[idx], db) } :
       \E st \in { ForEach(model_names[idx], rows, LoopStart) } :
           \* (rows and st are bound this way to be evaluated once)
           /\ db' = st.db
           /\ parents' = st.parents
           /\ skipSet' = st.skipSet
           /\ delSet' = st.delSet
           /\ activityEntries' = st.activityEntries
           /\ computedUpdates' = st.computedUpdates
           /\ reports' = Append(reports, [ m |-> model_names[idx],
                                           deleted |-> st.deleted,
                                           skipped |-> st.skipped,
                                           total |-> Len(rows) ])
    /\ idx' = NextSelected(idx + 1, models_to_cleanup)
    /\ IF idx' > Len(model_names)
       THEN /\ activity_stream_enabled' =
                 OnExit("activity_stream", activity_stream_enabled)
            /\ computed_fields_enabled' =
                 OnExit("computed_fields", computed_fields_enabled)
            /\ outcome' = "ok"
            /\ pc' = "idle"
       ELSE UNCHANGED << activity_stream_enabled, computed_fields_enabled,
                         outcome, pc >>
    /\ UNCHANGED << snapDb, snapParents, options, dry_run, cutoff,
                    models_to_cleanup, undone, last >>

\* A database error raised inside the cleanup_<m> in hand, by the query or
\* after k of its rows were handled: it leaves the with block and
\* handle_noargs, the transaction is rolled back and the error reaches the
\* caller.  No summary line is logged for the model.
CleanupRaises ==
    /\ pc = "cleanup"
    /\ \E rows \in { AllRows(model_names[idx], db) } :
       \E k \in 0..Len(rows) :
          \E st \in { ForEach(model_names[idx], SubSeq(rows, 1, k), LoopStart) } :
                 /\ db' = Rollback(st.db, snapDb)
                 /\ parents' = Rollback(st.parents, snapParents)
                 /\ undone' = snapDb \ st.db
                 /\ activityEntries' = st.activityEntries
                 /\ computedUpdates' = st.computedUpdates
    /\ activity_stream_enabled' = OnExit("activity_stream", activity_stream_enabled)
    /\ computed_fields_enabled' = OnExit("computed_fields", computed_fields_enabled)
    /\ outcome' = "StorageError"
    /\ pc' = "idle"
    /\ idx' = 1
    /\ reports' = << >>
    /\ skipSet' = {}
    /\ delSet' = {}
    /\ UNCHANGED << snapDb, snapParents, options, dry_run, cutoff,
                    models_to_cleanup, last >>

Next ==
    \/ \E dry \in BOOLEAN : StartRun(dry)
    \/ \E dry \in BOOLEAN : FailConfig(dry)
    \/ Cleanup
    \/ CleanupRaises

Spec == Init /\ [][Next]_vars

\* ------------------------------------------------------------- properties
\* The rows the running / last invocation removed from the database.
Gone == snapDb \ db

\* The models the command line selects.
Selected == IF options.only = {} THEN Categories ELSE options.only

ReportIdx == 1..Len(reports)

\* The last invocation and the one before it both ran to the end.
TwoRunsDone == outcome = "ok" /\ last.ok

\* An old terminal row nothing protects.
Deletable(r) ==
    /\ r.status = "successful"
    /\ r.created < Now - options.days
    /\ r.parent # None =>
         r.id \notin { snapParents[r.parent].current_update,
                       snapParents[r.parent].last_update }

\* C1 as stated: in every model, no row whose status is pending, waiting or
\* running is ever deleted by a run, whatever its age.
C1_AnyModelActiveNeverDeleted ==
    \A r \in Gone : r.status \notin NonTerminal

\* C1 as amended: no job, ad hoc command, project update, inventory update,
\* management job or workflow job whose status is pending, waiting or running
\* is ever deleted, and no notification whose status is pending is.
C1_ActiveNeverDeleted ==
    \A r \in Gone :
        IF r.cat = "notifications" THEN r.status # "pending"
        ELSE r.status \notin NonTerminal

\* A non-dry run has ended that deleted rows and kept an old row of a model
\* other than notifications whose status is pending, waiting or running.
C1_Witness ==
    /\ outcome = "ok" /\ ~dry_run /\ Gone # {}
    /\ \E r \in skipSet \cap db :
         r.cat # "notifications" /\ r.status \in NonTerminal /\ r.created < cutoff

\* C2: a project update (inventory update) that is the current_update or the
\* last_update of its project (inventory source) when the run starts is never
\* deleted by the run while that parent's source type is not empty.
C2_PointedUpdateNeverDeleted ==
    \A r \in Gone :
        r.cat \in UpdateCategories =>
            ~ ( /\ r.id \in { snapParents[r.parent].current_update,
                              snapParents[r.parent].last_update }
                /\ snapParents[r.parent].source # "" )

\* A non-dry run has ended that kept an old terminal update its parent's
\* last_update points to.
C2_Witness ==
    /\ outcome = "ok" /\ ~dry_run
    /\ \E r \in skipSet \cap db :
         /\ r.cat \in UpdateCategories
         /\ r.status = "successful"
         /\ r.created < cutoff
         /\ parents[r.parent].last_update = r.id
         /\ parents[r.parent].source # ""

\* C3: a row with created >= now - days is never deleted, nor counted as
\* deleted; the cutoff of a run is now - days throughout the run.
C3_RecentNeverDeleted ==
    /\ \A r \in Gone \cup delSet : r.created < Now - options.days
    /\ outcome \in { "running", "ok", "StorageError" } => cutoff = Now - options.days

\* A non-dry run has ended that deleted a row and kept an unprotected terminal
\* row created exactly at the cutoff.
C3_Witness ==
    /\ outcome = "ok" /\ ~dry_run /\ Gone # {}
    /\ \E r \in skipSet \cap db :
         /\ r.status = "successful"
         /\ r.created = Now - options.days
         /\ r.parent # None => parents[r.parent].current_update # r.id
                               /\ parents[r.parent].last_update # r.id

\* C4: a dry run leaves the rows and the parent pointers as they were, and
\* the non-dry run that follows a completed dry run reports, model by
\* model, the counts the dry run reported.
C4_DryRunFaithful ==
    /\ dry_run => db = snapDb /\ parents = snapParents
    /\ (TwoRunsDone /\ last.dry /\ ~dry_run) => reports = last.reports

\* A dry run and then a non-dry run have ended, and a model was reported
\* with rows deleted and rows skipped.
C4_Witness ==
    /\ TwoRunsDone /\ last.dry /\ ~dry_run
    /\ \E i \in ReportIdx : reports[i].deleted > 0 /\ reports[i].skipped > 0
    /\ Gone # {}

\* C5: when a database error ends a run, the rows and the parent pointers
\* are those the run started with, and the error is what the caller gets.
C5_ErrorRollsBack ==
    outcome = "StorageError" => pc = "idle" /\ db = snapDb /\ parents = snapParents

\* A non-dry run was ended by an error after it had deleted rows of two
\* models: the first of them had been cleaned to the end.
C5_Witness ==
    /\ outcome = "StorageError" /\ ~dry_run
    /\ \E r1 \in undone : \E r2 \in undone : r1.cat # r2.cat

\* C6: the second of two non-dry runs that follow one another deletes nothing
\* and skips exactly the rows the first one skipped.
C6_SecondRunDeletesNothing ==
    (TwoRunsDone /\ ~last.dry /\ ~dry_run) =>
        /\ delSet = {}
        /\ Gone = {}
        /\ \A i \in ReportIdx : reports[i].deleted = 0
        /\ skipSet = last.skipSet

\* Two non-dry runs have ended, the first of which deleted rows and skipped
\* rows.
C6_Witness ==
    /\ TwoRunsDone /\ ~last.dry /\ ~dry_run
    /\ \E i \in 1..Len(last.reports) : last.reports[i].deleted > 0
    /\ skipSet # {}

\* C7: with a horizon for which now - days is not representable, every
\* invocation ends with the configuration error: no row is visited, no summary
\* line is logged, the cutoff is never set and the database is untouched.
C7_OverflowFailsFast ==
    (Now - options.days < MinTime /\ outcome # "none") =>
        /\ outcome = "CommandError"
        /\ pc = "idle"
        /\ reports = << >>
        /\ skipSet = {} /\ delSet = {}
        /\ cutoff = Unset
        /\ db = snapDb /\ parents = snapParents

\* The command failed that way on a database holding an old terminal row.
C7_Witness ==
    /\ outcome = "CommandError"
    /\ \E r \in db : r.status = "successful" /\ r.parent = None

\* C8: the summary lines of a run name selected models only, in the order
\* of model_names and each once, and all of them when the run has ended;
\* rows of a model that is not selected are neither deleted nor counted.
C8_ExactlySelected ==
    /\ \A i \in ReportIdx : reports[i].m \in Selected
    /\ \A i \in ReportIdx : \A j \in ReportIdx :
         i < j => CatIdx(reports[i].m) < CatIdx(reports[j].m)
    /\ outcome = "ok" => { reports[i].m : i \in ReportIdx } = Selected
    /\ \A r \in snapDb : r.cat \notin Selected => r \in db /\ r \notin skipSet \cup delSet

\* A non-dry run with a selection has ended that deleted a row and left an
\* old terminal row of a model outside the selection.
C8_Witness ==
    /\ outcome = "ok" /\ ~dry_run /\ options.only # {} /\ Gone # {}
    /\ \E r \in db : r.cat \notin Selected /\ Deletable(r)

\* C9: no deletion ever reaches the audit-trail listener or the derived-field
\* listener, both are off inside the with block, and both are on whenever no
\* run is in progress, however the last run ended.
C9_ListenersSuppressed ==
    /\ activityEntries = 0 /\ computedUpdates = 0
    /\ pc = "cleanup" => ~activity_stream_enabled /\ ~computed_fields_enabled
    /\ pc = "idle" => activity_stream_enabled /\ computed_fields_enabled

\* A run was ended by an error after it had deleted a row.
C9_Witness ==
    /\ outcome = "StorageError" /\ undone # {}
    /\ activity_stream_enabled /\ computed_fields_enabled

\* C10: every summary line accounts for every row its query returned:
\* skipped + deleted = total; the counts are the numbers of rows of the model
\* counted as skipped and as deleted, and no row is counted as both.
C10_CountedOnce ==
    /\ skipSet \cap delSet = {}
    /\ \A i \in ReportIdx :
         /\ reports[i].skipped + reports[i].deleted = reports[i].total
         /\ reports[i].total = Cardinality({ r \in snapDb : r.cat = reports[i].m })
         /\ reports[i].skipped = Cardinality({ r \in skipSet : r.cat = reports[i].m })
         /\ reports[i].deleted = Cardinality({ r \in delSet : r.cat = reports[i].m })

\* A dry run has ended with a summary line that counts a row as skipped and
\* a row as deleted.
C10_Witness ==
    /\ outcome = "ok" /\ dry_run
    /\ \E i \in ReportIdx : reports[i].skipped > 0 /\ reports[i].deleted > 0

====
